---- MODULE Spec2Model ----
(***************************************************************************)
(* Refugee acceptance-rate predictor: the model artifact registry          *)
(* (backend/model_loader.py), the categorical-value reconciliation         *)
(* (_encode_value) and the prediction / confidence logic                   *)
(* (backend/predict.py).                                                   *)
(*                                                                         *)
(* Strings are sequences of code points.  Numbers that are floats in the   *)
(* program are integers in units of 1/100000.                              *)
(* A Python Optional is None == << >> or Some(x) == << x >>.               *)
(***************************************************************************)
EXTENDS Integers, Sequences, FiniteSets, TLC

None == << >>
Some(x) == << x >>

Min(a, b) == IF b < a THEN b ELSE a
Max(a, b) == IF b > a THEN b ELSE a

---------------------------------------------------------------------------
(* Characters and strings: a character is its code point, a string the     *)
(* sequence of its characters.                                             *)

UpperLetters == << "A", "B", "C", "D", "E", "F", "G", "H", "I", "J", "K", "L", "M",
                   "N", "O", "P", "Q", "R", "S", "T", "U", "V", "W", "X", "Y", "Z" >>
LowerLetters == << "a", "b", "c", "d", "e", "f", "g", "h", "i", "j", "k", "l", "m",
                   "n", "o", "p", "q", "r", "s", "t", "u", "v", "w", "x", "y", "z" >>

\* ord(c), for the characters written in this module.
CodePoint(c) ==
    IF \E i \in 1..Len(UpperLetters) : UpperLetters[i] = c
    THEN 64 + (CHOOSE i \in 1..Len(UpperLetters) : UpperLetters[i] = c)
    ELSE IF \E i \in 1..Len(LowerLetters) : LowerLetters[i] = c
    THEN 96 + (CHOOSE i \in 1..Len(LowerLetters) : LowerLetters[i] = c)
    ELSE CASE c = " " -> 32
           [] c = "." -> 46
           [] c = "/" -> 47

\* The string written as the sequence of its characters.
Str(written) == [i \in 1..Len(written) |-> CodePoint(written[i])]

\* str.lower() on one character: "A".."Z" become "a".."z".
LowerChar(c) == IF c >= 65 /\ c <= 90 THEN c + 32 ELSE c

\* str.lower()
Lower(s) == [i \in 1..Len(s) |-> LowerChar(s[i])]

\* a in b, for strings
IsSubstring(a, b) == \E k \in 0..(Len(b) - Len(a)) : SubSeq(b, k + 1, k + Len(a)) = a

\* s[:n]
Prefix(s, n) == SubSeq(s, 1, Min(n, Len(s)))

\* a < b, for strings: the order of the code points.
StrLess(a, b) ==
    \/ /\ Len(a) < Len(b)
       /\ SubSeq(b, 1, Len(a)) = a
    \/ \E i \in 1..Min(Len(a), Len(b)) :
          /\ SubSeq(a, 1, i - 1) = SubSeq(b, 1, i - 1)
          /\ a[i] < b[i]

\* LabelEncoder.fit: classes_ is the sorted sequence of the distinct labels.
RECURSIVE FitClasses(_)
FitClasses(labels) ==
    IF labels = {} THEN << >>
    ELSE LET least == CHOOSE x \in labels : \A y \in labels \ {x} : StrLess(x, y)
         IN  << least >> \o FitClasses(labels \ {least})

---------------------------------------------------------------------------
(* Labels of the training corpus and inputs of the requests                *)

SyrianArabRep == Str(<< "S", "y", "r", "i", "a", "n", " ", "A", "r", "a", "b", " ", "R", "e", "p", "." >>)
GAR == Str(<< "G", " ", "/", " ", "A", "R" >>)
UAR == Str(<< "U", " ", "/", " ", "A", "R" >>)
JAR == Str(<< "J", " ", "/", " ", "A", "R" >>)
Germany == Str(<< "G", "e", "r", "m", "a", "n", "y" >>)
Syria == Str(<< "S", "y", "r", "i", "a" >>)
syria == Str(<< "s", "y", "r", "i", "a" >>)
syrian == Str(<< "s", "y", "r", "i", "a", "n" >>)
syrianArabRepublic == Str(<< "s", "y", "r", "i", "a", "n", " ", "a", "r", "a", "b", " ",
                         "r", "e", "p", "u", "b", "l", "i", "c" >>)
SyrianArabRepublic == Str(<< "S", "y", "r", "i", "a", "n", " ", "A", "r", "a", "b", " ",
                         "R", "e", "p", "u", "b", "l", "i", "c" >>)
government == Str(<< "g", "o", "v", "e", "r", "n", "m", "e", "n", "t" >>)
Government == Str(<< "G", "o", "v", "e", "r", "n", "m", "e", "n", "t" >>)
unhcr == Str(<< "u", "n", "h", "c", "r" >>)
UNHCR == Str(<< "U", "N", "H", "C", "R" >>)
joint == Str(<< "j", "o", "i", "n", "t" >>)
Joint == Str(<< "J", "o", "i", "n", "t" >>)
unknown == Str(<< "u", "n", "k", "n", "o", "w", "n" >>)
Unknown == Str(<< "U", "n", "k", "n", "o", "w", "n" >>)
Martian == Str(<< "M", "a", "r", "t", "i", "a", "n" >>)
Empty == Str(<< >>)
s_a == Str(<< "a" >>)
s_A == Str(<< "A" >>)
s_b == Str(<< "b" >>)
s_ab == Str(<< "a", "b" >>)
s_Ab == Str(<< "A", "b" >>)
s_AB == Str(<< "A", "B" >>)
s_ba == Str(<< "b", "a" >>)

FeatureNames == {"country", "origin", "procedure"}

---------------------------------------------------------------------------
(* Encoder reconciliation: ModelLoader._encode_value                       *)

\* value in encoder.classes_
InClasses(classes, value) == \E i \in 1..Len(classes) : classes[i] = value

\* encoder.transform([value])[0], for a value of classes_: its index, from 0.
Transform(classes, value) == (CHOOSE i \in 1..Len(classes) : classes[i] = value) - 1

GetCountryMapping ==
    (syria :> SyrianArabRep) @@ (syrianArabRepublic :> SyrianArabRep) @@ (syrian :> SyrianArabRep)

GetProcedureMapping ==
    (government :> GAR) @@ (unhcr :> UAR) @@ (joint :> JAR) @@ (unknown :> UAR)

\* First, try exact match.
ExactMatch(classes, value) ==
    IF InClasses(classes, value) THEN Some(Transform(classes, value)) ELSE None

\* Try case-insensitive match.
CaseInsensitiveMatch(classes, value) ==
    LET value_lower == Lower(value)
        matching_classes == SelectSeq(classes, LAMBDA c : Lower(c) = value_lower)
    IN  IF matching_classes # << >>
        THEN Some(Transform(classes, matching_classes[1]))
        ELSE None

\* One alias table, looked up with the lower-cased value.
MappingMatch(classes, value, mapping) ==
    LET value_lower == Lower(value)
    IN  IF value_lower \in DOMAIN mapping /\ InClasses(classes, mapping[value_lower])
        THEN Some(Transform(classes, mapping[value_lower]))
        ELSE None

\* A plausible slip: both alias tables are consulted for every feature.
AliasMatchAnyFeature(classes, value, feature_name) ==
    LET country == MappingMatch(classes, value, GetCountryMapping)
    IN  IF country # None THEN country
        ELSE MappingMatch(classes, value, GetProcedureMapping)

\* Try country name mapping (for origin/country features), then procedure
\* type mapping.
AliasMatch(classes, value, feature_name) ==
    LET country == IF feature_name \in {"origin", "country"}
                   THEN MappingMatch(classes, value, GetCountryMapping)
                   ELSE None
    IN  IF country # None THEN country
        ELSE IF feature_name = "procedure"
             THEN MappingMatch(classes, value, GetProcedureMapping)
             ELSE None

\* A plausible slip: the partial match without the prefix preference, which
\* returns the first candidate whatever its prefix.
PartialMatchFirstCandidate(classes, value) ==
    LET value_lower == Lower(value)
        matching_classes ==
            SelectSeq(classes, LAMBDA c : \/ IsSubstring(value_lower, Lower(c))
                                          \/ IsSubstring(Lower(c), value_lower))
    IN  IF matching_classes # << >>
        THEN Some(Transform(classes, matching_classes[1]))
        ELSE None

\* Try partial match (contains), preferring a class that starts with the value.
PartialMatch(classes, value) ==
    LET value_lower == Lower(value)
        matching_classes ==
            SelectSeq(classes, LAMBDA c : \/ IsSubstring(value_lower, Lower(c))
                                          \/ IsSubstring(Lower(c), value_lower))
        exact_match ==
            SelectSeq(matching_classes,
                      LAMBDA c : value_lower = Prefix(Lower(c), Len(value_lower)))
    IN  IF matching_classes # << >>
        THEN IF exact_match # << >>
             THEN Some(Transform(classes, exact_match[1]))
             ELSE Some(Transform(classes, matching_classes[1]))
        ELSE None

\* A plausible slip: on a case-insensitive match the value, not the matching
\* class, is handed to transform, which raises; the exception is caught and
\* None returned.
EncodeValueEncodingInput(classes, value, feature_name) ==
    IF ExactMatch(classes, value) # None THEN ExactMatch(classes, value)
    ELSE IF CaseInsensitiveMatch(classes, value) # None THEN None
    ELSE IF AliasMatch(classes, value, feature_name) # None
         THEN AliasMatch(classes, value, feature_name)
    ELSE PartialMatch(classes, value)

\* A plausible slip: the case-insensitive step is tried before the exact one.
EncodeValueCaseFirst(classes, value, feature_name) ==
    IF CaseInsensitiveMatch(classes, value) # None THEN CaseInsensitiveMatch(classes, value)
    ELSE IF ExactMatch(classes, value) # None THEN ExactMatch(classes, value)
    ELSE IF AliasMatch(classes, value, feature_name) # None
         THEN AliasMatch(classes, value, feature_name)
    ELSE PartialMatch(classes, value)

\* _encode_value for an encoder with classes_: the steps in order, the first
\* match returned; None when no step matches.
EncodeValue(classes, value, feature_name) ==
    IF ExactMatch(classes, value) # None THEN ExactMatch(classes, value)
    ELSE IF CaseInsensitiveMatch(classes, value) # None
         THEN CaseInsensitiveMatch(classes, value)
    ELSE IF AliasMatch(classes, value, feature_name) # None
         THEN AliasMatch(classes, value, feature_name)
    ELSE PartialMatch(classes, value)

---------------------------------------------------------------------------
(* Numbers: floats of the program in units of 1/100000                     *)

One == 100000
ConfidenceFloor == 1000
ConfidenceCeiling == 50000
DefaultRmse == 43900

\* What the regressors may return for an input: below 0, inside [0,1], above
\* 1, and a lower quantile above the upper one.
PointOutputs == {-20000, 40000, 150000}
LowerOutputs == {-20000, 60000}
UpperOutputs == {40000, 150000}

\* rmse values of a metadata file, residual_std values of a residual file.
RmseValues == {500, 20000, 200000}
ResidualStds == {100, 30000}

\* What a dict holds under one key: nothing, or a number.
MetadataFiles == {[rmse |-> None]} \cup {[rmse |-> Some(r)] : r \in RmseValues}
ResidualFiles == {[residual_std |-> None]} \cup {[residual_std |-> Some(r)] : r \in ResidualStds}

\* dict.get(key, default) on such an entry
Get(entry, default) == IF entry = None THEN default ELSE entry[1]

---------------------------------------------------------------------------
(* The artifacts on disk                                                   *)

\* label_encoders.pkl: the three fitted encoders, each given by its classes_.
EncoderSets ==
    { [country   |-> FitClasses({Germany, SyrianArabRep}),
       origin    |-> FitClasses({Germany, SyrianArabRep}),
       procedure |-> FitClasses({GAR, JAR, UAR})],
      [country   |-> FitClasses({Germany}),
       origin    |-> FitClasses({Germany}),
       procedure |-> FitClasses({GAR})] }

\* The requests: << country, origin, procedure >>.
Requests ==
    { << Germany, Syria, Government >>,
      << Germany, Syria, Martian >>,
      << Germany, Martian, UNHCR >>,
      << Martian, Syria, Government >> }

\* A file of the model directory when it is looked at: absent, present but
\* failing to deserialize, present and deserialized.
FileStates == {"missing", "corrupt", "ok"}

---------------------------------------------------------------------------
(* State                                                                   *)

VARIABLES
    instance,        \* ModelLoader._instance is not None
    created,         \* how many ModelLoader objects __new__ has allocated
    rebuilt,         \* ModelLoader() has been called on a ready registry
    models_loaded,   \* the instance's _models_loaded flag (set by __init__)
    model,           \* the point model, or None
    model_lower,     \* the 5% quantile model, or None
    model_upper,     \* the 95% quantile model, or None
    encoders,        \* the encoder set, or None
    metadata,        \* the metadata dict, or None
    lpc,             \* where the load_models call in progress stands
    trace,           \* what the load_models call in progress, or the last one, met
    load_ret,        \* what the last load_models call returned, or None
    ever_succeeded,  \* some load_models call has returned success
    pred,            \* the last predict_acceptance_rate call, or None
    enc_classes,     \* _encode_value on its own: the encoder's classes_
    enc_value,       \*   the value
    enc_feature,     \*   the feature name
    enc_ret,         \*   what it returned
    enc_pc           \*   "call" before, "done" after

registry == << instance, created, rebuilt, models_loaded, model, model_lower, model_upper, encoders, metadata >>
loading == << lpc, trace, load_ret, ever_succeeded >>
reading == << pred >>
encoding == << enc_classes, enc_value, enc_feature, enc_ret, enc_pc >>
vars == << registry, loading, reading, encoding >>

\* ModelLoader.is_loaded
IsLoaded == model # None /\ encoders # None

NoTrace == [model |-> "-", quantile |-> "-", encoders |-> "-", metadata |-> "-"]

RegistryInit ==
    /\ instance = FALSE
    /\ created = 0
    /\ rebuilt = FALSE
    /\ models_loaded = FALSE
    /\ model = None
    /\ model_lower = None
    /\ model_upper = None
    /\ encoders = None
    /\ metadata = None
    /\ lpc = "idle"
    /\ trace = NoTrace
    /\ load_ret = None
    /\ ever_succeeded = FALSE
    /\ pred = None

Init ==
    /\ RegistryInit
    /\ enc_classes = << >>
    /\ enc_value = << >>
    /\ enc_feature = "country"
    /\ enc_ret = None
    /\ enc_pc = "idle"

---------------------------------------------------------------------------
(* ModelLoader(): __new__ and __init__                                     *)

\* A plausible slip: __init__ without its guard, resetting the fields on
\* every construction.
ConstructResetting ==
    /\ instance' = TRUE
    /\ created' = IF instance THEN created ELSE created + 1
    /\ rebuilt' = (rebuilt \/ (model # None /\ encoders # None))
    /\ model' = None
    /\ model_lower' = None
    /\ model_upper' = None
    /\ encoders' = None
    /\ metadata' = None
    /\ models_loaded' = TRUE
    /\ UNCHANGED << loading, reading, encoding >>

\* __new__ allocates an object only while _instance is None and returns
\* _instance; __init__ sets the fields to None unless _models_loaded.
Construct ==
    /\ instance' = TRUE
    /\ created' = IF instance THEN created ELSE created + 1
    /\ rebuilt' = (rebuilt \/ (model # None /\ encoders # None))
    /\ IF ~models_loaded
       THEN /\ model' = None
            /\ model_lower' = None
            /\ model_upper' = None
            /\ encoders' = None
            /\ metadata' = None
            /\ models_loaded' = TRUE
       ELSE UNCHANGED << model, model_lower, model_upper, encoders, metadata, models_loaded >>
    /\ UNCHANGED << loading, reading, encoding >>

---------------------------------------------------------------------------
(* ModelLoader.load_models, statement by statement                         *)

\* return False, message
ReturnFailure(message) ==
    /\ lpc' = "idle"
    /\ load_ret' = Some([success |-> FALSE, error |-> Some(message)])
    /\ UNCHANGED ever_succeeded

\* load_models is called: the directory is resolved.
LoadModelsCall ==
    /\ instance
    /\ lpc = "idle"
    /\ lpc' = "model"
    /\ trace' = NoTrace
    /\ UNCHANGED << registry, load_ret, ever_succeeded, reading, encoding >>

\* Load main model.
LoadMainModel ==
    /\ lpc = "model"
    /\ \E file \in FileStates :
          /\ trace' = [trace EXCEPT !.model = file]
          /\ CASE file = "missing" ->
                    /\ ReturnFailure("Model file not found")
                    /\ UNCHANGED model
               [] file = "corrupt" ->
                    /\ ReturnFailure("Error loading models")
                    /\ UNCHANGED model
               [] file = "ok" ->
                    /\ model' = Some("xgboost_model")
                    /\ lpc' = "quantile"
                    /\ UNCHANGED << load_ret, ever_succeeded >>
    /\ UNCHANGED << instance, created, rebuilt, models_loaded, model_lower, model_upper, encoders, metadata,
                    reading, encoding >>

\* if model_lower_path.exists() and model_upper_path.exists()
CheckQuantileFiles ==
    /\ lpc = "quantile"
    /\ \E lower_exists \in BOOLEAN, upper_exists \in BOOLEAN :
          IF lower_exists /\ upper_exists
          THEN /\ lpc' = "lower"
               /\ UNCHANGED trace
          ELSE /\ lpc' = "clear_lower"
               /\ trace' = [trace EXCEPT !.quantile = "absent"]
    /\ UNCHANGED << registry, load_ret, ever_succeeded, reading, encoding >>

\* self.model_lower = joblib.load(model_lower_path)
LoadLower ==
    /\ lpc = "lower"
    /\ \E file \in {"corrupt", "ok"} :
          IF file = "ok"
          THEN /\ model_lower' = Some("xgboost_model_lower")
               /\ lpc' = "upper"
               /\ UNCHANGED trace
          ELSE /\ lpc' = "clear_lower"
               /\ trace' = [trace EXCEPT !.quantile = "failed"]
               /\ UNCHANGED model_lower
    /\ UNCHANGED << instance, created, rebuilt, models_loaded, model, model_upper, encoders, metadata,
                    load_ret, ever_succeeded, reading, encoding >>

\* A plausible slip: a failing upper model is skipped, the lower one kept.
LoadUpperKeepingLower ==
    /\ lpc = "upper"
    /\ \E file \in {"corrupt", "ok"} :
          IF file = "ok"
          THEN /\ model_upper' = Some("xgboost_model_upper")
               /\ lpc' = "encoders"
               /\ trace' = [trace EXCEPT !.quantile = "pair"]
          ELSE /\ lpc' = "encoders"
               /\ trace' = [trace EXCEPT !.quantile = "failed"]
               /\ UNCHANGED model_upper
    /\ UNCHANGED << instance, created, rebuilt, models_loaded, model, model_lower, encoders, metadata,
                    load_ret, ever_succeeded, reading, encoding >>

\* self.model_upper = joblib.load(model_upper_path)
LoadUpper ==
    /\ lpc = "upper"
    /\ \E file \in {"corrupt", "ok"} :
          IF file = "ok"
          THEN /\ model_upper' = Some("xgboost_model_upper")
               /\ lpc' = "encoders"
               /\ trace' = [trace EXCEPT !.quantile = "pair"]
          ELSE /\ lpc' = "clear_lower"
               /\ trace' = [trace EXCEPT !.quantile = "failed"]
               /\ UNCHANGED model_upper
    /\ UNCHANGED << instance, created, rebuilt, models_loaded, model, model_lower, encoders, metadata,
                    load_ret, ever_succeeded, reading, encoding >>

\* self.model_lower = None (in the except clause and in the else branch)
ClearLower ==
    /\ lpc = "clear_lower"
    /\ model_lower' = None
    /\ lpc' = "clear_upper"
    /\ UNCHANGED << instance, created, rebuilt, models_loaded, model, model_upper, encoders, metadata,
                    trace, load_ret, ever_succeeded, reading, encoding >>

\* self.model_upper = None
ClearUpper ==
    /\ lpc = "clear_upper"
    /\ model_upper' = None
    /\ lpc' = "encoders"
    /\ UNCHANGED << instance, created, rebuilt, models_loaded, model, model_lower, encoders, metadata,
                    trace, load_ret, ever_succeeded, reading, encoding >>

\* Load encoders.
LoadEncoders ==
    /\ lpc = "encoders"
    /\ \E file \in FileStates :
          /\ trace' = [trace EXCEPT !.encoders = file]
          /\ CASE file = "missing" ->
                    /\ ReturnFailure("Encoders file not found")
                    /\ UNCHANGED encoders
               [] file = "corrupt" ->
                    /\ ReturnFailure("Error loading models")
                    /\ UNCHANGED encoders
               [] file = "ok" ->
                    /\ \E e \in EncoderSets : encoders' = Some(e)
                    /\ lpc' = "metadata"
                    /\ UNCHANGED << load_ret, ever_succeeded >>
    /\ UNCHANGED << instance, created, rebuilt, models_loaded, model, model_lower, model_upper, metadata,
                    reading, encoding >>

\* Load metadata, and return True, None.
LoadMetadata ==
    /\ lpc = "metadata"
    /\ \E file \in FileStates :
          /\ trace' = [trace EXCEPT !.metadata = file]
          /\ CASE file = "corrupt" ->
                    /\ ReturnFailure("Error loading models")
                    /\ UNCHANGED metadata
               [] file = "missing" ->
                    /\ metadata' = Some([rmse |-> Some(DefaultRmse)])
                    /\ lpc' = "idle"
                    /\ load_ret' = Some([success |-> TRUE, error |-> None])
                    /\ ever_succeeded' = TRUE
               [] file = "ok" ->
                    /\ \E m \in MetadataFiles : metadata' = Some(m)
                    /\ lpc' = "idle"
                    /\ load_ret' = Some([success |-> TRUE, error |-> None])
                    /\ ever_succeeded' = TRUE
    /\ UNCHANGED << instance, created, rebuilt, models_loaded, model, model_lower, model_upper, encoders,
                    reading, encoding >>

---------------------------------------------------------------------------
(* ModelLoader.encode_input                                                *)

\* A plausible slip: a procedure that matches nothing is given the code -1.
EncodeInputDefaulting(encs, country, origin, procedure) ==
    IF encs = None
    THEN [encoded |-> None, error |-> Some("Encoders not loaded")]
    ELSE LET country_encoded == EncodeValue(encs[1].country, country, "country")
             origin_encoded == EncodeValue(encs[1].origin, origin, "origin")
             procedure_encoded == EncodeValue(encs[1].procedure, procedure, "procedure")
         IN  IF country_encoded = None
             THEN [encoded |-> None, error |-> Some("Unknown country")]
             ELSE IF origin_encoded = None
             THEN [encoded |-> None, error |-> Some("Unknown origin")]
             ELSE [encoded |-> Some(<< country_encoded[1], origin_encoded[1],
                                       Get(procedure_encoded, -1) >>),
                   error |-> None]

\* The three codes, or the error of the first feature that matches nothing.
EncodeInput(encs, country, origin, procedure) ==
    IF encs = None
    THEN [encoded |-> None, error |-> Some("Encoders not loaded")]
    ELSE LET country_encoded == EncodeValue(encs[1].country, country, "country")
             origin_encoded == EncodeValue(encs[1].origin, origin, "origin")
             procedure_encoded == EncodeValue(encs[1].procedure, procedure, "procedure")
         IN  IF country_encoded = None
             THEN [encoded |-> None, error |-> Some("Unknown country")]
             ELSE IF origin_encoded = None
             THEN [encoded |-> None, error |-> Some("Unknown origin")]
             ELSE IF procedure_encoded = None
             THEN [encoded |-> None, error |-> Some("Unknown procedure type")]
             ELSE [encoded |-> Some(<< country_encoded[1], origin_encoded[1],
                                       procedure_encoded[1] >>),
                   error |-> None]

---------------------------------------------------------------------------
(* predict_acceptance_rate                                                 *)

\* What the call meets outside the registry: what each regressor's predict
\* does (None: it raises; Some(x): it returns x) and residual_stats.pkl
\* (<< "missing" >>, << "corrupt" >> or << "ok", the dict >>).
ResidualStates == {<< "missing" >>, << "corrupt" >>} \cup {<< "ok", f >> : f \in ResidualFiles}
Outcomes(outputs) == {None} \cup {Some(x) : x \in outputs}
Environments ==
    [point : Outcomes(PointOutputs), lower : Outcomes(LowerOutputs),
     upper : Outcomes(UpperOutputs), residual : ResidualStates]

\* max(0.0, min(1.0, x))
Clamp01(x) == Max(0, Min(One, x))

\* A plausible slip: the floor of the confidence is left out.
ClampConfidenceNoFloor(c) == Min(ConfidenceCeiling, c)

\* max(0.01, min(0.5, confidence))
ClampConfidence(c) == Max(ConfidenceFloor, Min(ConfidenceCeiling, c))

\* 1.96 * std / 2.0
HalfWidth(std) == (196 * std) \div 200

\* A plausible slip: the residual statistics are preferred to the quantile models.
ConfidenceResidualFirst(lower_model, upper_model, meta, env) ==
    IF env.residual[1] = "ok"
    THEN Some(HalfWidth(Get(env.residual[2].residual_std, DefaultRmse)))
    ELSE IF lower_model # None /\ upper_model # None
    THEN IF env.lower = None \/ env.upper = None
         THEN None
         ELSE Some((Clamp01(env.upper[1]) - Clamp01(env.lower[1])) \div 2)
    ELSE IF meta = None
    THEN None
    ELSE Some(HalfWidth(Get(meta[1].rmse, DefaultRmse)))

\* Calculate confidence interval: the value before the final clamp, or None
\* when an exception leaves the computation.
Confidence(lower_model, upper_model, meta, env) ==
    IF lower_model # None /\ upper_model # None
    THEN IF env.lower = None \/ env.upper = None
         THEN None
         ELSE Some((Clamp01(env.upper[1]) - Clamp01(env.lower[1])) \div 2)
    ELSE IF env.residual[1] = "ok"
    THEN Some(HalfWidth(Get(env.residual[2].residual_std, DefaultRmse)))
    ELSE IF meta = None
    THEN None
    ELSE Some(HalfWidth(Get(meta[1].rmse, DefaultRmse)))

\* The regressors whose predict is called.
Invoked(point_model, lower_model, upper_model, env) ==
    {"point"}
    \cup (IF env.point # None /\ lower_model # None /\ upper_model # None
          THEN {"lower"} ELSE {})
    \cup (IF env.point # None /\ lower_model # None /\ upper_model # None /\ env.lower # None
          THEN {"upper"} ELSE {})

\* The record of a call: its arguments, what it did and what it returned.
\* pc is "infer" while the call stands before the point model's predict and
\* "done" once it has returned (rate, confidence, error).  classes and codes
\* are the encoder set read and the codes it gave; invoked the regressors
\* whose predict was called, outputs what they returned; quantile whether
\* both quantile models were there; residual the residual statistics loaded;
\* rmse the rmse entry of the metadata, when the metadata was read.
Returned(request, ready, attempted, error) ==
    [pc |-> "done", request |-> request,
     ready |-> ready, encode_attempted |-> attempted,
     classes |-> IF attempted THEN encoders ELSE None, codes |-> None,
     invoked |-> {}, outputs |-> [point |-> None, lower |-> None, upper |-> None],
     quantile |-> FALSE, residual |-> None, rmse |-> None,
     rate |-> 0, confidence |-> 0, error |-> Some(error)]

Encoded(request, codes) ==
    [pc |-> "infer", request |-> request,
     ready |-> TRUE, encode_attempted |-> TRUE, classes |-> encoders, codes |-> codes,
     invoked |-> {}, outputs |-> [point |-> None, lower |-> None, upper |-> None],
     quantile |-> FALSE, residual |-> None, rmse |-> None,
     rate |-> 0, confidence |-> 0, error |-> None]

\* predict_acceptance_rate(country, origin, procedure, model_loader) is
\* called: the readiness check and encode_input.
PredictCall ==
    /\ instance
    /\ IF pred = None THEN TRUE ELSE pred[1].pc = "done"
    /\ \E request \in Requests :
          LET enc == EncodeInput(encoders, request[1], request[2], request[3])
          IN  pred' = IF ~IsLoaded
                      THEN Some(Returned(request, FALSE, FALSE, "Models not loaded"))
                      ELSE IF enc.error # None
                      THEN Some(Returned(request, TRUE, TRUE, enc.error[1]))
                      ELSE Some(Encoded(request, enc.encoded))
    /\ UNCHANGED << registry, loading, encoding >>

\* The call from the point model's predict to its return, in the environment env.
Infer(call, env) ==
    LET quantile == model_lower # None /\ model_upper # None
        used == Invoked(model, model_lower, model_upper, env)
        confidence == Confidence(model_lower, model_upper, metadata, env)
        failed == env.point = None \/ confidence = None
    IN  [call EXCEPT
           !.pc = "done",
           !.invoked = used,
           !.outputs = [point |-> env.point,
                        lower |-> IF "lower" \in used THEN env.lower ELSE None,
                        upper |-> IF "upper" \in used THEN env.upper ELSE None],
           !.quantile = quantile,
           !.residual = IF ~quantile /\ env.point # None /\ env.residual[1] = "ok"
                        THEN Some(env.residual[2]) ELSE None,
           !.rmse = IF ~quantile /\ env.point # None /\ env.residual[1] # "ok"
                       /\ metadata # None
                    THEN Some(metadata[1].rmse) ELSE None,
           !.rate = IF failed THEN 0 ELSE Clamp01(env.point[1]),
           !.confidence = IF failed THEN 0 ELSE ClampConfidence(confidence[1]),
           !.error = IF failed THEN Some("Prediction error") ELSE None]

PredictInfer ==
    /\ IF pred = None THEN FALSE ELSE pred[1].pc = "infer"
    /\ \E env \in Environments : pred' = Some(Infer(pred[1], env))
    /\ UNCHANGED << registry, loading, encoding >>

---------------------------------------------------------------------------
(* The service                                                             *)

Next ==
    \/ Construct
    \/ LoadModelsCall
    \/ LoadMainModel
    \/ CheckQuantileFiles
    \/ LoadLower
    \/ LoadUpper
    \/ ClearLower
    \/ ClearUpper
    \/ LoadEncoders
    \/ LoadMetadata
    \/ PredictCall
    \/ PredictInfer

Spec == Init /\ [][Next]_vars

---------------------------------------------------------------------------
(* _encode_value on its own: every vocabulary of at most MaxVocab labels   *)
(* of the pool, every value, every feature                                 *)

MaxVocab == 2

LabelPool == {Empty, s_a, s_A, s_ab, s_Ab, s_b, s_ba, SyrianArabRep, GAR, UAR, JAR, Syria, Unknown}

Values ==
    LabelPool \cup {s_AB, syria, syrian, SyrianArabRepublic, syrianArabRepublic,
                    government, Government, UNHCR, Joint, unknown, Martian}

Vocabularies ==
    {FitClasses(labels) : labels \in {l \in SUBSET LabelPool :
                                         Cardinality(l) >= 1 /\ Cardinality(l) <= MaxVocab}}

InitEncode ==
    /\ RegistryInit
    /\ enc_classes \in Vocabularies
    /\ enc_value \in Values
    /\ enc_feature \in FeatureNames
    /\ enc_ret = None
    /\ enc_pc = "call"

\* self._encode_value(encoder, value, feature_name)
EncodeValueCall ==
    /\ enc_pc = "call"
    /\ enc_ret' = EncodeValue(enc_classes, enc_value, enc_feature)
    /\ enc_pc' = "done"
    /\ UNCHANGED << registry, loading, reading, enc_classes, enc_value, enc_feature >>

NextEncode == EncodeValueCall

SpecEncode == InitEncode /\ [][NextEncode]_vars

---------------------------------------------------------------------------
(* Properties of _encode_value, under SpecEncode                           *)

\* The index LabelEncoder.fit gave a label: its rank among the sorted labels.
TrainedIndex(classes, label) ==
    Cardinality({i \in 1..Len(classes) : StrLess(classes[i], label)})

\* Two strings that differ at most in the case of their letters.
SameIgnoringCase(v, w) == Lower(v) = Lower(w)

\* The value matches some class exactly or case-insensitively.
MatchesDirectly(classes, value) ==
    \E i \in 1..Len(classes) : SameIgnoringCase(classes[i], value)

\* One of the two strings, lower-cased, is a substring of the other.
SubstringRelated(class, value) ==
    \/ IsSubstring(Lower(value), Lower(class))
    \/ IsSubstring(Lower(class), Lower(value))

\* The result is one the substring step may give: the index of a class
\* substring-related to the value, and None only when there is no such class.
FromSubstringStep(classes, value, ret) ==
    IF ret = None
    THEN \A i \in 1..Len(classes) : ~SubstringRelated(classes[i], value)
    ELSE /\ ret[1] + 1 \in 1..Len(classes)
         /\ SubstringRelated(classes[ret[1] + 1], value)

\* C3 as claimed: every case-permutation W of a vocabulary string V encodes
\* to the index of V, in every vocabulary.
C3_CasePermutationAnyVocabulary ==
    enc_pc = "done" =>
        \A i \in 1..Len(enc_classes) :
            SameIgnoringCase(enc_classes[i], enc_value) => enc_ret = Some(i - 1)

\* C3 as amended: every case-permutation W of a vocabulary string V that no
\* other vocabulary entry equals case-insensitively encodes to the index of V.
C3_CasePermutationOfUniqueEntry ==
    enc_pc = "done" =>
        \A i \in 1..Len(enc_classes) :
            (/\ SameIgnoringCase(enc_classes[i], enc_value)
             /\ \A j \in 1..Len(enc_classes) :
                    SameIgnoringCase(enc_classes[j], enc_classes[i]) => j = i)
            => enc_ret = Some(TrainedIndex(enc_classes, enc_classes[i]))

\* A value that is not in the vocabulary was encoded as the second class,
\* which it equals but for the case of a letter.
C3_Witness ==
    /\ enc_pc = "done"
    /\ Len(enc_classes) = 2
    /\ ~InClasses(enc_classes, enc_value)
    /\ SameIgnoringCase(enc_classes[2], enc_value)
    /\ ~SameIgnoringCase(enc_classes[1], enc_value)
    /\ enc_ret = Some(1)

\* C4: a value that is in the vocabulary encodes to its own trained index,
\* whatever else the vocabulary and the alias tables hold.
C4_ExactMatchAuthoritative ==
    (enc_pc = "done" /\ InClasses(enc_classes, enc_value))
        => enc_ret = Some(TrainedIndex(enc_classes, enc_value))

\* A vocabulary string was encoded to its own index 1 although the class of
\* index 0 equals it case-insensitively.
C4_Witness ==
    /\ enc_pc = "done"
    /\ Len(enc_classes) = 2
    /\ enc_classes[2] = enc_value
    /\ SameIgnoringCase(enc_classes[1], enc_value)
    /\ enc_ret = Some(1)

CountryKeys == {syria, syrian, syrianArabRepublic}
ProcedureKeys == {government, unhcr, joint, unknown}

\* The label the procedure kind's alias table is claimed to give.
ProcedureTarget(key) ==
    CASE key = government -> GAR
      [] key = unhcr -> UAR
      [] key = joint -> JAR
      [] key = unknown -> UAR

\* C5: a value that matches no class directly and whose lower-cased form is
\* an alias key of the feature's kind encodes to the index of the key's
\* label when the vocabulary holds that label; when it does not, or when
\* the key is of the other kind, the result is the substring step's.
C5_AliasResolution ==
    (enc_pc = "done" /\ ~MatchesDirectly(enc_classes, enc_value)) =>
        LET key == Lower(enc_value)
            country_kind == enc_feature \in {"origin", "country"}
        IN  /\ (key \in CountryKeys /\ country_kind
                  /\ InClasses(enc_classes, SyrianArabRep))
               => enc_ret = Some(TrainedIndex(enc_classes, SyrianArabRep))
            /\ (key \in ProcedureKeys /\ ~country_kind
                  /\ InClasses(enc_classes, ProcedureTarget(key)))
               => enc_ret = Some(TrainedIndex(enc_classes, ProcedureTarget(key)))
            /\ (key \in CountryKeys
                  /\ (~country_kind \/ ~InClasses(enc_classes, SyrianArabRep)))
               => FromSubstringStep(enc_classes, enc_value, enc_ret)
            /\ (key \in ProcedureKeys
                  /\ (country_kind \/ ~InClasses(enc_classes, ProcedureTarget(key))))
               => FromSubstringStep(enc_classes, enc_value, enc_ret)

\* "Syrian Arab Republic" was encoded for the origin feature as
\* "Syrian Arab Rep.", the second class, to which it is not substring-related.
C5_Witness ==
    /\ enc_pc = "done"
    /\ enc_feature = "origin"
    /\ enc_value = SyrianArabRepublic
    /\ Len(enc_classes) = 2
    /\ enc_classes[2] = SyrianArabRep
    /\ ~SubstringRelated(SyrianArabRep, enc_value)
    /\ enc_ret = Some(1)

---------------------------------------------------------------------------
(* Properties of predict_acceptance_rate, under Spec                       *)

\* The last predict_acceptance_rate call has returned.
Returns == IF pred = None THEN FALSE ELSE pred[1].pc = "done"

\* The last predict_acceptance_rate call has returned without an error.
Succeeds == IF pred = None THEN FALSE ELSE pred[1].pc = "done" /\ pred[1].error = None

\* C1: a result with no error has 0 <= rate <= 1 and 0.01 <= confidence <= 0.5
\* (in units of 1/100000), whatever the regressors returned.
C1_RateAndConfidenceInRange ==
    Succeeds =>
        /\ pred[1].rate >= 0
        /\ pred[1].rate <= 100000
        /\ pred[1].confidence >= 1000
        /\ pred[1].confidence <= 50000

\* A call succeeded although the point model returned more than 1 and the
\* lower quantile model more than the upper one.
C1_Witness ==
    /\ Succeeds
    /\ pred[1].outputs.point = Some(150000)
    /\ pred[1].quantile
    /\ pred[1].outputs.lower = Some(60000)
    /\ pred[1].outputs.upper = Some(40000)
    /\ pred[1].rate = 100000
    /\ pred[1].confidence = 1000

UnknownCategoryErrors ==
    {Some("Unknown country"), Some("Unknown origin"), Some("Unknown procedure type")}

\* The code is an index of an entry of the vocabulary.
IsVocabularyIndex(code, classes) == code \in 0..(Len(classes) - 1)

\* C2: a regressor is invoked only in a call that found the registry ready
\* and got, for each input, the index of an entry of the feature's
\* vocabulary; a call that finds the registry not ready returns the
\* not-ready error without encoding; a call with an input that matches
\* nothing returns an unknown-category error and invokes no regressor.
C2_InvokedOnlyWithVocabularyCodes ==
    pred # None =>
        LET call == pred[1]
        IN  /\ call.invoked # {} =>
                  /\ call.ready
                  /\ call.classes # None
                  /\ call.codes # None
                  /\ IsVocabularyIndex(call.codes[1][1], call.classes[1].country)
                  /\ IsVocabularyIndex(call.codes[1][2], call.classes[1].origin)
                  /\ IsVocabularyIndex(call.codes[1][3], call.classes[1].procedure)
            /\ ~call.ready =>
                  /\ call.pc = "done"
                  /\ call.error = Some("Models not loaded")
                  /\ ~call.encode_attempted
                  /\ call.invoked = {}
            /\ call.error \in UnknownCategoryErrors => call.invoked = {}
            /\ (/\ call.ready
                /\ call.classes # None
                /\ \/ EncodeValue(call.classes[1].country, call.request[1], "country") = None
                   \/ EncodeValue(call.classes[1].origin, call.request[2], "origin") = None
                   \/ EncodeValue(call.classes[1].procedure, call.request[3], "procedure") = None)
               => /\ call.pc = "done"
                  /\ call.error \in UnknownCategoryErrors
                  /\ call.invoked = {}

\* Germany / Syria / Government was encoded as << 0, 1, 0 >> (exact match,
\* alias, alias) and the three regressors were invoked.
C2_Witness ==
    /\ Succeeds
    /\ pred[1].request = << Germany, Syria, Government >>
    /\ pred[1].codes = Some(<< 0, 1, 0 >>)
    /\ pred[1].invoked = {"point", "lower", "upper"}

\* C10: the confidence of a successful call comes from one source, the first
\* there is of: the clamped quantile outputs, (upper - lower) / 2; the
\* residual statistics, 1.96 * residual_std / 2; the metadata,
\* 1.96 * rmse / 2 (0.439 standing in for an entry the dict lacks); and is
\* then clamped to [0.01, 0.5].
C10_ConfidenceByPriority ==
    Succeeds =>
        LET call == pred[1]
            Unit(x) == IF x < 0 THEN 0 ELSE IF x > 100000 THEN 100000 ELSE x
            Bounded(c) == IF c < 1000 THEN 1000 ELSE IF c > 50000 THEN 50000 ELSE c
            Entry(e) == IF e = None THEN 43900 ELSE e[1]
        IN  IF call.quantile
            THEN /\ call.outputs.lower # None
                 /\ call.outputs.upper # None
                 /\ call.residual = None
                 /\ call.rmse = None
                 /\ call.confidence =
                      Bounded((Unit(call.outputs.upper[1]) - Unit(call.outputs.lower[1])) \div 2)
            ELSE IF call.residual # None
            THEN /\ call.rmse = None
                 /\ call.outputs.lower = None
                 /\ call.outputs.upper = None
                 /\ call.confidence =
                      Bounded((196 * Entry(call.residual[1].residual_std)) \div 200)
            ELSE /\ call.rmse # None
                 /\ call.outputs.lower = None
                 /\ call.outputs.upper = None
                 /\ call.confidence = Bounded((196 * Entry(call.rmse[1])) \div 200)

\* With no quantile models and no residual statistics, a call succeeded with
\* the confidence 1.96 * 0.2 / 2 = 0.196 of a metadata rmse of 0.2.
C10_Witness ==
    /\ Succeeds
    /\ ~pred[1].quantile
    /\ pred[1].residual = None
    /\ pred[1].rmse = Some(Some(20000))
    /\ pred[1].confidence = 19600

---------------------------------------------------------------------------
(* Properties of the registry, under Spec                                  *)

\* No load_models call is in progress.
Idle == lpc = "idle"

\* C6 as claimed: between calls, is_loaded() is false until a load_models
\* call has returned success, and true ever after.
C6_ReadinessFollowsSuccess ==
    /\ (Idle /\ ~ever_succeeded) => ~IsLoaded
    /\ ever_succeeded => IsLoaded

\* C7 as claimed: after a load_models call that returned failure is_loaded()
\* is false; a call returns success only if the point model and the encoder
\* set were found and deserialized.
C7_FailureLeavesNotReady ==
    (Idle /\ load_ret # None) =>
        IF load_ret[1].success
        THEN trace.model = "ok" /\ trace.encoders = "ok"
        ELSE ~IsLoaded

\* C8 as claimed: whenever is_loaded() is true, the registry is fully
\* populated: the metadata is there and the quantile models are both there
\* or both absent.
C8_ReadyMeansFullyPopulated ==
    IsLoaded =>
        /\ metadata # None
        /\ (model_lower = None) <=> (model_upper = None)

\* C9: once load_models has returned, the quantile models are both there or
\* both absent: both there if this call loaded the pair, both absent if this
\* call found one missing or failing; and such a failure is not what makes
\* the call return failure.
C9_QuantileModelsArePaired ==
    Idle =>
        /\ (model_lower = None) <=> (model_upper = None)
        /\ trace.quantile = "pair" => (model_lower # None /\ model_upper # None)
        /\ trace.quantile \in {"absent", "failed"} =>
              (model_lower = None /\ model_upper = None)
        /\ (/\ trace.quantile \in {"absent", "failed"}
            /\ trace.encoders = "ok"
            /\ trace.metadata \in {"ok", "missing"})
           => (load_ret # None /\ load_ret[1].success)
        /\ (load_ret # None /\ ~load_ret[1].success) =>
              \/ trace.model \in {"missing", "corrupt"}
              \/ trace.encoders \in {"missing", "corrupt"}
              \/ trace.metadata = "corrupt"

\* A load_models call returned success although a quantile model failed to
\* deserialize: both quantile models are absent.
C9_Witness ==
    /\ Idle
    /\ trace.quantile = "failed"
    /\ load_ret = Some([success |-> TRUE, error |-> None])
    /\ model_lower = None
    /\ model_upper = None

---------------------------------------------------------------------------
(* The singleton, under Spec                                               *)

\* C11: ModelLoader() always returns the one object that was allocated
\* first, and a step that is not a statement of load_models, a construction
\* on a populated registry in particular, leaves model, model_lower,
\* model_upper, encoders and metadata as they are.
C11_SingletonKeepsLoadedState ==
    /\ [](created <= 1)
    /\ [](instance => created = 1)
    /\ [][lpc' = lpc => UNCHANGED << model, model_lower, model_upper, encoders, metadata >>]_vars

\* ModelLoader() was called on a registry that load_models had populated:
\* there is still one object, and it is still populated and ready.
C11_Witness ==
    /\ rebuilt
    /\ Idle
    /\ created = 1
    /\ IsLoaded
    /\ metadata # None
    /\ model_lower # None
    /\ model_upper # None

---------------------------------------------------------------------------
(* The substring step of _encode_value, under SpecEncode                   *)

\* The alias table of the feature's kind maps the lower-cased value to a
\* label that the vocabulary holds.
AliasResolves(classes, value, feature_name) ==
    LET key == Lower(value)
        country_kind == feature_name \in {"origin", "country"}
    IN  \/ country_kind /\ key \in CountryKeys /\ InClasses(classes, SyrianArabRep)
        \/ ~country_kind /\ key \in ProcedureKeys
              /\ InClasses(classes, ProcedureTarget(key))

\* The positions of the vocabulary entries substring-related to the value.
Candidates(classes, value) ==
    {i \in 1..Len(classes) : SubstringRelated(classes[i], value)}

\* The candidates whose lower-cased prefix of the value's length is the
\* lower-cased value.
PrefixCandidates(classes, value) ==
    {i \in Candidates(classes, value) :
        Prefix(Lower(classes[i]), Len(value)) = Lower(value)}

\* The least member of a non-empty set of positions.
First(positions) == CHOOSE i \in positions : \A j \in positions : i <= j

\* C12: when the exact, case-insensitive and alias steps all fail, the
\* result is the index of the first candidate in vocabulary order that
\* starts with the lower-cased value, else the index of the first candidate,
\* and not-found only when there is no candidate.
C12_SubstringStepPrefersPrefix ==
    (/\ enc_pc = "done"
     /\ ~MatchesDirectly(enc_classes, enc_value)
     /\ ~AliasResolves(enc_classes, enc_value, enc_feature)) =>
        LET candidates == Candidates(enc_classes, enc_value)
            prefixed == PrefixCandidates(enc_classes, enc_value)
        IN  enc_ret = IF prefixed # {} THEN Some(First(prefixed) - 1)
                      ELSE IF candidates # {} THEN Some(First(candidates) - 1)
                      ELSE None

\* "b" against the vocabulary ("ab", "ba"): both entries are candidates, the
\* first has no "b" prefix, and the second entry's index is returned.
C12_Witness ==
    /\ enc_pc = "done"
    /\ ~MatchesDirectly(enc_classes, enc_value)
    /\ ~AliasResolves(enc_classes, enc_value, enc_feature)
    /\ Candidates(enc_classes, enc_value) = {1, 2}
    /\ PrefixCandidates(enc_classes, enc_value) = {2}
    /\ enc_ret = Some(1)

---------------------------------------------------------------------------
(* Resolved entries are related to the input, under SpecEncode             *)

\* The entry is the label the alias table of the feature's kind gives for
\* the lower-cased value.
IsAliasTarget(class, value, feature_name) ==
    LET key == Lower(value)
        country_kind == feature_name \in {"origin", "country"}
    IN  \/ country_kind /\ key \in CountryKeys /\ class = SyrianArabRep
        \/ ~country_kind /\ key \in ProcedureKeys /\ class = ProcedureTarget(key)

\* One of the two strings, lower-cased, is a non-empty substring of the other.
NonEmptySubstringRelated(class, value) ==
    \/ value # Empty /\ IsSubstring(Lower(value), Lower(class))
    \/ class # Empty /\ IsSubstring(Lower(class), Lower(value))

\* The entry equals the value up to case, is its alias target, or shares a
\* non-empty substring relation with it.
RelatedTo(class, value, feature_name) ==
    \/ SameIgnoringCase(class, value)
    \/ IsAliasTarget(class, value, feature_name)
    \/ NonEmptySubstringRelated(class, value)

\* C13 as claimed: a returned code is the index of an entry related to the
\* value, the empty value and the empty entry included; when no entry is
\* related to the value the result is not-found.
C13_ResolvedEntryIsRelated ==
    enc_pc = "done" =>
        /\ enc_ret # None =>
              /\ enc_ret[1] + 1 \in 1..Len(enc_classes)
              /\ RelatedTo(enc_classes[enc_ret[1] + 1], enc_value, enc_feature)
        /\ (\A i \in 1..Len(enc_classes) :
                ~RelatedTo(enc_classes[i], enc_value, enc_feature))
              => enc_ret = None

====
